---------------------------- MODULE Spec2Model ----------------------------
(***************************************************************************)
(* Model of the skin-tone recommendation engine                            *)
(* (src/ml_recommendation_engine.py): the colour lexicon, the feature      *)
(* extractor, the two rule scorers, the training-set synthesiser, the      *)
(* ranking engine and the three HTTP handlers that read and write the      *)
(* process-wide product table and model.                                   *)
(*                                                                         *)
(* Representation.  A Python str whose characters matter (a colour name,   *)
(* a lexicon token, a recommended-colour phrase) is a sequence of          *)
(* one-character strings, so that lower() and the substring test `a in b`  *)
(* are computed and not assumed.  A str that is only compared for          *)
(* equality (a category, an undertone, a family name, a dict key) is a     *)
(* TLA+ string.  A Python dict is a function whose DOMAIN is the set of    *)
(* keys present, so a missing key is a key outside the DOMAIN.  A float    *)
(* count/num_colors is the reduced fraction <<numerator, denominator>>.    *)
(***************************************************************************)
EXTENDS Integers, Sequences, FiniteSets, TLC

VARIABLES
  product_data,  \* global product_data: NONE or the product feature table
  models,        \* global models: a dict, empty or with key "compatibility"
  sort_kind,     \* what sort_values(kind='quicksort') does with equal keys in this build
  req,           \* the request being answered (NONE before the first one)
  resp,          \* the response to it
  args,          \* the arguments of a direct call of a pure function
  ret,           \* the value that call returned
  threads        \* the request threads of the threaded server: where each is
                 \* in its handler, and the handler's locals

vars == <<product_data, models, sort_kind, req, resp, args, ret, threads>>

NONE == [none |-> TRUE]

-----------------------------------------------------------------------------
(* Python str and dict primitives *)

UpperChars ==
  << "A","B","C","D","E","F","G","H","I","J","K","L","M",
     "N","O","P","Q","R","S","T","U","V","W","X","Y","Z" >>

LowerChars ==
  << "a","b","c","d","e","f","g","h","i","j","k","l","m",
     "n","o","p","q","r","s","t","u","v","w","x","y","z" >>

\* A Python list built element by element: the sequence with its elements
\* computed.
List(f) == SubSeq(f, 1, Len(f))

\* str.lower() on one character.
lower_char(ch) ==
  IF \E i \in 1..Len(UpperChars) : UpperChars[i] = ch
  THEN LowerChars[CHOOSE i \in 1..Len(UpperChars) : UpperChars[i] = ch]
  ELSE ch

\* str.lower()
lower(s) == List([i \in 1..Len(s) |-> lower_char(s[i])])

\* The character U+0131, LATIN SMALL LETTER DOTLESS I: str.lower() leaves it
\* as it is and str.upper() turns it into "I".
DotlessI == "U+0131"

upper_char(ch) ==
  IF \E i \in 1..Len(LowerChars) : LowerChars[i] = ch
  THEN UpperChars[CHOOSE i \in 1..Len(LowerChars) : LowerChars[i] = ch]
  ELSE IF ch = DotlessI THEN "I"
  ELSE ch

\* str.upper()
upper(s) == List([i \in 1..Len(s) |-> upper_char(s[i])])

\* Python `t in s` for two strs: t occurs in s as a contiguous substring.
Contains(s, t) ==
  \E i \in 0..(Len(s) - Len(t)) : SubSeq(s, i + 1, i + Len(t)) = t

\* dict.get(k, default)
Get(d, k, default) == IF k \in DOMAIN d THEN d[k] ELSE default

\* max(0, min(100, x))
Min(a, b) == IF a < b THEN a ELSE b
Max(a, b) == IF a > b THEN a ELSE b
Clamp(x) == Max(0, Min(100, x))

RECURSIVE Gcd(_, _)
Gcd(a, b) == IF b = 0 THEN a ELSE Gcd(b, a % b)

\* The float a / b (b > 0) as a reduced fraction.
Frac(a, b) == LET g == Gcd(a, b) IN << a \div g, b \div g >>

-----------------------------------------------------------------------------
(* The static data of the module *)

\* COLOR_FAMILIES in declaration order: each family with its tokens.
COLOR_FAMILIES ==
  << [family |-> "red", colors |->
       << <<"r","e","d">>, <<"m","a","r","o","o","n">>, <<"b","u","r","g","u","n","d","y">>,
          <<"c","r","i","m","s","o","n">>, <<"s","c","a","r","l","e","t">>, <<"r","u","b","y">>,
          <<"c","h","e","r","r","y">> >>],
     [family |-> "pink", colors |->
       << <<"p","i","n","k">>, <<"r","o","s","e">>, <<"f","u","c","h","s","i","a">>,
          <<"m","a","g","e","n","t","a">>, <<"s","a","l","m","o","n">> >>],
     [family |-> "orange", colors |->
       << <<"o","r","a","n","g","e">>, <<"p","e","a","c","h">>, <<"c","o","r","a","l">>,
          <<"a","m","b","e","r">>, <<"t","e","r","r","a","c","o","t","t","a">>,
          <<"r","u","s","t">> >>],
     [family |-> "yellow", colors |->
       << <<"y","e","l","l","o","w">>, <<"g","o","l","d">>, <<"m","u","s","t","a","r","d">>,
          <<"l","e","m","o","n">>, <<"h","o","n","e","y">> >>],
     [family |-> "green", colors |->
       << <<"g","r","e","e","n">>, <<"o","l","i","v","e">>, <<"e","m","e","r","a","l","d">>,
          <<"l","i","m","e">>, <<"m","i","n","t">>, <<"s","a","g","e">>,
          <<"f","o","r","e","s","t"," ","g","r","e","e","n">>,
          <<"h","u","n","t","e","r"," ","g","r","e","e","n">> >>],
     [family |-> "blue", colors |->
       << <<"b","l","u","e">>, <<"n","a","v","y">>, <<"t","e","a","l">>,
          <<"t","u","r","q","u","o","i","s","e">>, <<"c","o","b","a","l","t">>,
          <<"r","o","y","a","l"," ","b","l","u","e">>, <<"s","k","y"," ","b","l","u","e">>,
          <<"c","y","a","n">> >>],
     [family |-> "purple", colors |->
       << <<"p","u","r","p","l","e">>, <<"l","a","v","e","n","d","e","r">>,
          <<"v","i","o","l","e","t">>, <<"p","l","u","m">>, <<"l","i","l","a","c">>,
          <<"m","a","u","v","e">>, <<"i","n","d","i","g","o">>,
          <<"a","m","e","t","h","y","s","t">> >>],
     [family |-> "brown", colors |->
       << <<"b","r","o","w","n">>, <<"t","a","n">>, <<"b","e","i","g","e">>,
          <<"c","a","m","e","l">>, <<"k","h","a","k","i">>, <<"c","h","e","s","t","n","u","t">>,
          <<"c","h","o","c","o","l","a","t","e">>, <<"c","o","f","f","e","e">> >>],
     [family |-> "neutral", colors |->
       << <<"w","h","i","t","e">>, <<"b","l","a","c","k">>, <<"g","r","a","y">>,
          <<"g","r","e","y">>, <<"s","i","l","v","e","r">>, <<"i","v","o","r","y">>,
          <<"c","r","e","a","m">> >>] >>

\* COLOR_TONES in declaration order: <<token, tone>>.
COLOR_TONES ==
  << << <<"r","e","d">>, "warm" >>,
     << <<"b","u","r","g","u","n","d","y">>, "cool" >>,
     << <<"c","r","i","m","s","o","n">>, "warm" >>,
     << <<"s","c","a","r","l","e","t">>, "warm" >>,
     << <<"m","a","r","o","o","n">>, "cool" >>,
     << <<"r","u","b","y">>, "cool" >>,
     << <<"c","h","e","r","r","y">>, "cool" >>,
     << <<"p","i","n","k">>, "cool" >>,
     << <<"r","o","s","e">>, "cool" >>,
     << <<"s","a","l","m","o","n">>, "warm" >>,
     << <<"f","u","c","h","s","i","a">>, "cool" >>,
     << <<"m","a","g","e","n","t","a">>, "cool" >>,
     << <<"o","r","a","n","g","e">>, "warm" >>,
     << <<"p","e","a","c","h">>, "warm" >>,
     << <<"c","o","r","a","l">>, "warm" >>,
     << <<"a","m","b","e","r">>, "warm" >>,
     << <<"t","e","r","r","a","c","o","t","t","a">>, "warm" >>,
     << <<"r","u","s","t">>, "warm" >>,
     << <<"y","e","l","l","o","w">>, "warm" >>,
     << <<"g","o","l","d">>, "warm" >>,
     << <<"m","u","s","t","a","r","d">>, "warm" >>,
     << <<"l","e","m","o","n">>, "cool" >>,
     << <<"h","o","n","e","y">>, "warm" >>,
     << <<"g","r","e","e","n">>, "neutral" >>,
     << <<"o","l","i","v","e">>, "warm" >>,
     << <<"e","m","e","r","a","l","d">>, "cool" >>,
     << <<"l","i","m","e">>, "cool" >>,
     << <<"m","i","n","t">>, "cool" >>,
     << <<"s","a","g","e">>, "cool" >>,
     << <<"f","o","r","e","s","t"," ","g","r","e","e","n">>, "cool" >>,
     << <<"h","u","n","t","e","r"," ","g","r","e","e","n">>, "cool" >>,
     << <<"b","l","u","e">>, "cool" >>,
     << <<"n","a","v","y">>, "cool" >>,
     << <<"t","e","a","l">>, "cool" >>,
     << <<"t","u","r","q","u","o","i","s","e">>, "cool" >>,
     << <<"c","o","b","a","l","t">>, "cool" >>,
     << <<"r","o","y","a","l"," ","b","l","u","e">>, "cool" >>,
     << <<"s","k","y"," ","b","l","u","e">>, "cool" >>,
     << <<"c","y","a","n">>, "cool" >>,
     << <<"p","u","r","p","l","e">>, "cool" >>,
     << <<"l","a","v","e","n","d","e","r">>, "cool" >>,
     << <<"v","i","o","l","e","t">>, "cool" >>,
     << <<"p","l","u","m">>, "cool" >>,
     << <<"l","i","l","a","c">>, "cool" >>,
     << <<"m","a","u","v","e">>, "cool" >>,
     << <<"i","n","d","i","g","o">>, "cool" >>,
     << <<"a","m","e","t","h","y","s","t">>, "cool" >>,
     << <<"b","r","o","w","n">>, "warm" >>,
     << <<"t","a","n">>, "warm" >>,
     << <<"b","e","i","g","e">>, "warm" >>,
     << <<"c","a","m","e","l">>, "warm" >>,
     << <<"k","h","a","k","i">>, "warm" >>,
     << <<"c","h","e","s","t","n","u","t">>, "warm" >>,
     << <<"c","h","o","c","o","l","a","t","e">>, "warm" >>,
     << <<"c","o","f","f","e","e">>, "warm" >>,
     << <<"w","h","i","t","e">>, "neutral" >>,
     << <<"b","l","a","c","k">>, "neutral" >>,
     << <<"g","r","a","y">>, "neutral" >>,
     << <<"g","r","e","y">>, "neutral" >>,
     << <<"s","i","l","v","e","r">>, "cool" >>,
     << <<"i","v","o","r","y">>, "warm" >>,
     << <<"c","r","e","a","m">>, "warm" >> >>

\* SKIN_TONES: the nine predefined profiles.
SKIN_TONES ==
  << [id |-> "warm_light", name |-> "Light Warm", undertone |-> "warm", depth |-> "light",
      recommendedColors |->
        << <<"P","e","a","c","h">>, <<"C","o","r","a","l">>,
           <<"W","a","r","m"," ","o","r","a","n","g","e">>,
           <<"G","o","l","d","e","n"," ","y","e","l","l","o","w">>,
           <<"O","l","i","v","e"," ","g","r","e","e","n">>, <<"W","a","r","m"," ","r","e","d">>,
           <<"T","e","r","r","a","c","o","t","t","a">>, <<"I","v","o","r","y">>,
           <<"C","r","e","a","m">>, <<"B","r","o","n","z","e">> >>,
      notRecommendedColors |->
        << <<"B","l","u","e","-","b","a","s","e","d"," ","p","i","n","k">>,
           <<"C","o","l","d"," ","b","l","u","e">>, <<"S","i","l","v","e","r">>,
           <<"I","c","y"," ","p","a","s","t","e","l","s">>,
           <<"D","e","e","p"," ","p","u","r","p","l","e">> >>],
     [id |-> "warm_medium", name |-> "Medium Warm", undertone |-> "warm", depth |-> "medium",
      recommendedColors |->
        << <<"A","m","b","e","r">>, <<"W","a","r","m"," ","b","r","o","w","n">>,
           <<"O","r","a","n","g","e"," ","r","e","d">>, <<"T","e","a","l">>,
           <<"F","o","r","e","s","t"," ","g","r","e","e","n">>,
           <<"W","a","r","m"," ","c","o","r","a","l">>, <<"C","a","m","e","l">>,
           <<"H","o","n","e","y">>, <<"M","u","s","t","a","r","d">>, <<"B","r","o","n","z","e">> >>,
      notRecommendedColors |->
        << <<"P","a","s","t","e","l"," ","b","l","u","e">>,
           <<"C","o","o","l"," ","g","r","a","y">>, <<"M","a","g","e","n","t","a">>,
           <<"B","a","b","y"," ","p","i","n","k">>, <<"I","c","y"," ","w","h","i","t","e">> >>],
     [id |-> "warm_deep", name |-> "Deep Warm", undertone |-> "warm", depth |-> "deep",
      recommendedColors |->
        << <<"B","r","i","g","h","t"," ","o","r","a","n","g","e">>,
           <<"W","a","r","m"," ","r","e","d">>, <<"G","o","l","d">>,
           <<"C","o","p","p","e","r">>, <<"H","u","n","t","e","r"," ","g","r","e","e","n">>,
           <<"T","a","n","g","e","r","i","n","e">>,
           <<"B","r","i","g","h","t"," ","y","e","l","l","o","w">>,
           <<"M","a","g","e","n","t","a">>, <<"P","u","r","p","l","e">>,
           <<"F","u","c","h","s","i","a">> >>,
      notRecommendedColors |->
        << <<"P","a","l","e"," ","p","a","s","t","e","l","s">>,
           <<"L","i","g","h","t"," ","b","e","i","g","e">>,
           <<"M","u","t","e","d"," ","c","o","l","o","r","s">>, <<"O","l","i","v","e">>,
           <<"D","u","s","t","y"," ","r","o","s","e">> >>],
     [id |-> "cool_light", name |-> "Light Cool", undertone |-> "cool", depth |-> "light",
      recommendedColors |->
        << <<"R","o","s","e"," ","p","i","n","k">>, <<"B","l","u","e","-","r","e","d">>,
           <<"L","a","v","e","n","d","e","r">>, <<"N","a","v","y">>,
           <<"E","m","e","r","a","l","d">>, <<"R","a","s","p","b","e","r","r","y">>,
           <<"B","l","u","e","-","t","o","n","e","d"," ","p","u","r","p","l","e">>,
           <<"S","i","l","v","e","r">>, <<"S","o","f","t"," ","w","h","i","t","e">>,
           <<"G","r","a","y">> >>,
      notRecommendedColors |->
        << <<"O","r","a","n","g","e">>, <<"W","a","r","m"," ","y","e","l","l","o","w","s">>,
           <<"P","e","a","c","h">>, <<"C","o","r","a","l">>, <<"C","a","m","e","l">> >>],
     [id |-> "cool_medium", name |-> "Medium Cool", undertone |-> "cool", depth |-> "medium",
      recommendedColors |->
        << <<"F","u","c","h","s","i","a">>, <<"P","l","u","m">>, <<"R","u","b","y">>,
           <<"R","o","y","a","l"," ","b","l","u","e">>,
           <<"P","i","n","e"," ","g","r","e","e","n">>, <<"T","r","u","e"," ","r","e","d">>,
           <<"C","o","o","l"," ","p","i","n","k">>, <<"C","o","o","l"," ","m","i","n","t">>,
           <<"D","e","e","p"," ","p","u","r","p","l","e">>, <<"B","u","r","g","u","n","d","y">> >>,
      notRecommendedColors |->
        << <<"R","u","s","t">>, <<"W","a","r","m"," ","b","r","o","w","n">>,
           <<"Y","e","l","l","o","w">>, <<"O","r","a","n","g","e">>, <<"O","l","i","v","e">> >>],
     [id |-> "cool_deep", name |-> "Deep Cool", undertone |-> "cool", depth |-> "deep",
      recommendedColors |->
        << <<"R","o","y","a","l"," ","p","u","r","p","l","e">>,
           <<"T","r","u","e"," ","r","e","d">>, <<"H","o","t"," ","p","i","n","k">>,
           <<"C","o","b","a","l","t"," ","b","l","u","e">>,
           <<"E","m","e","r","a","l","d"," ","g","r","e","e","n">>,
           <<"P","u","r","e"," ","w","h","i","t","e">>,
           <<"B","r","i","g","h","t"," ","b","e","r","r","y"," ","t","o","n","e","s">>,
           <<"T","r","u","e"," ","b","l","u","e">>,
           <<"E","l","e","c","t","r","i","c"," ","b","l","u","e">>,
           <<"W","i","n","e"," ","r","e","d">> >>,
      notRecommendedColors |->
        << <<"O","r","a","n","g","e">>, <<"K","h","a","k","i">>,
           <<"M","u","t","e","d"," ","b","r","o","w","n","s">>,
           <<"L","i","g","h","t"," ","p","a","s","t","e","l","s">>,
           <<"W","a","r","m"," ","y","e","l","l","o","w","s">> >>],
     [id |-> "neutral_light", name |-> "Light Neutral", undertone |-> "neutral", depth |-> "light",
      recommendedColors |->
        << <<"S","o","f","t"," ","p","i","n","k">>, <<"L","i","g","h","t"," ","b","l","u","e">>,
           <<"C","a","m","e","l">>, <<"M","e","d","i","u","m"," ","g","r","a","y">>,
           <<"S","a","g","e"," ","g","r","e","e","n">>,
           <<"P","e","r","i","w","i","n","k","l","e">>,
           <<"S","o","f","t"," ","w","h","i","t","e">>, <<"N","a","v","y">>,
           <<"M","e","d","i","u","m"," ","p","u","r","p","l","e">>, <<"T","e","a","l">> >>,
      notRecommendedColors |->
        << <<"V","e","r","y"," ","b","r","i","g","h","t"," ","c","o","l","o","r","s">>,
           <<"N","e","o","n"," ","c","o","l","o","r","s">>,
           <<"V","e","r","y"," ","d","a","r","k"," ","c","o","l","o","r","s">> >>],
     [id |-> "neutral_medium", name |-> "Medium Neutral", undertone |-> "neutral", depth |-> "medium",
      recommendedColors |->
        << <<"T","e","a","l">>, <<"M","e","d","i","u","m"," ","b","l","u","e">>,
           <<"C","o","r","a","l">>, <<"B","u","r","g","u","n","d","y">>,
           <<"O","l","i","v","e"," ","g","r","e","e","n">>,
           <<"M","e","d","i","u","m"," ","p","u","r","p","l","e">>, <<"C","a","m","e","l">>,
           <<"F","o","r","e","s","t"," ","g","r","e","e","n">>, <<"R","u","s","s","e","t">>,
           <<"N","a","v","y">> >>,
      notRecommendedColors |->
        << <<"N","e","o","n"," ","c","o","l","o","r","s">>,
           <<"V","e","r","y"," ","p","a","l","e"," ","p","a","s","t","e","l","s">> >>],
     [id |-> "neutral_deep", name |-> "Deep Neutral", undertone |-> "neutral", depth |-> "deep",
      recommendedColors |->
        << <<"E","m","e","r","a","l","d"," ","g","r","e","e","n">>,
           <<"R","o","y","a","l"," ","b","l","u","e">>,
           <<"B","r","i","g","h","t"," ","r","e","d">>,
           <<"P","u","r","e"," ","w","h","i","t","e">>, <<"O","r","a","n","g","e">>,
           <<"F","u","c","h","s","i","a">>, <<"C","o","b","a","l","t"," ","b","l","u","e">>,
           <<"G","o","l","d">>, <<"B","r","i","g","h","t"," ","y","e","l","l","o","w">>,
           <<"P","u","r","p","l","e">> >>,
      notRecommendedColors |->
        << <<"B","e","i","g","e">>, <<"P","a","l","e"," ","y","e","l","l","o","w">>,
           <<"L","i","g","h","t"," ","p","a","s","t","e","l","s">>,
           <<"M","u","t","e","d"," ","t","o","n","e","s">> >>] >>

\* SAMPLE_PRODUCTS: the built-in single-sample catalog.  price is in cents,
\* rating in tenths (19.99 and 4.5 in the source).
SAMPLE_PRODUCTS ==
  << [id |-> "1", category |-> "Tops", gender |-> "unisex",
      price |-> 1999, rating |-> 45, reviewCount |-> 120,
      colors |-> << <<"W","h","i","t","e">>, <<"B","l","a","c","k">>, <<"N","a","v","y">>,
                    <<"R","e","d">>, <<"O","l","i","v","e"," ","G","r","e","e","n">> >>] >>

Tones == {"warm", "cool", "neutral"}

-----------------------------------------------------------------------------
(* Colour lexicon *)

\* Whether family i of COLOR_FAMILIES has a token occurring in `normalized`.
FamilyHit(normalized, i) ==
  \E j \in 1..Len(COLOR_FAMILIES[i].colors) :
     Contains(normalized, COLOR_FAMILIES[i].colors[j])

\* get_color_family answering with the last family that has a token in the
\* string instead of the first.
get_color_family_last(color_str) ==
  LET normalized == lower(color_str)
      n == Len(COLOR_FAMILIES)
  IN IF \E i \in 1..n : FamilyHit(normalized, i)
     THEN COLOR_FAMILIES[CHOOSE i \in 1..n :
                           /\ FamilyHit(normalized, i)
                           /\ \A k \in (i + 1)..n : ~FamilyHit(normalized, k)].family
     ELSE "other"

get_color_family(color_str) ==
  LET normalized == lower(color_str)
      n == Len(COLOR_FAMILIES)
  IN IF \E i \in 1..n : FamilyHit(normalized, i)
     THEN COLOR_FAMILIES[CHOOSE i \in 1..n :
                           /\ FamilyHit(normalized, i)
                           /\ \A k \in 1..(i - 1) : ~FamilyHit(normalized, k)].family
     ELSE "other"

get_color_tone(color_str) ==
  LET normalized == lower(color_str)
      n == Len(COLOR_TONES)
      exact(i) == COLOR_TONES[i][1] = normalized
      partial(i) == Contains(normalized, COLOR_TONES[i][1])
  IN IF \E i \in 1..n : exact(i)
     THEN COLOR_TONES[CHOOSE i \in 1..n : exact(i)][2]
     ELSE IF \E i \in 1..n : partial(i)
     THEN COLOR_TONES[CHOOSE i \in 1..n :
                        partial(i) /\ \A k \in 1..(i - 1) : ~partial(k)][2]
     ELSE "neutral"

-----------------------------------------------------------------------------
(* Inputs.  Colour names that occur in requests; the lexicon is looked up   *)
(* once per colour name (ToneOf, FamilyOf) and the result reused.           *)

Navy == <<"N","a","v","y">>
Red == <<"R","e","d">>
White == <<"W","h","i","t","e">>
OliveGreen == <<"O","l","i","v","e"," ","G","r","e","e","n">>
Sparkle == <<"S","p","a","r","k","l","e">>   \* in no table: tone neutral, family other

ColorNames ==
  {Navy, Red, White, OliveGreen, Sparkle}
    \cup {SAMPLE_PRODUCTS[1].colors[i] : i \in 1..Len(SAMPLE_PRODUCTS[1].colors)}

ToneOf == [c \in ColorNames |-> get_color_tone(c)]
FamilyOf == [c \in ColorNames |-> get_color_family(c)]

Tone(c) == ToneOf[c]
Family(c) == FamilyOf[c]

-----------------------------------------------------------------------------
(* Rule-based scorer, simple variant *)

\* A variant in which a neutral skin undertone counts as a perfect match.
ColorAdjust_neutral10(color, skin_undertone) ==
  LET color_tone == Tone(color)
  IN IF color_tone = skin_undertone \/ skin_undertone = "neutral" THEN 10
     ELSE IF color_tone = "neutral" THEN 5
     ELSE -5

\* One iteration of the loop over product_colors.
ColorAdjust(color, skin_undertone) ==
  LET color_tone == Tone(color)
  IN IF color_tone = skin_undertone THEN 10
     ELSE IF color_tone = "neutral" THEN 5
     ELSE IF skin_undertone = "neutral" THEN 5
     ELSE -5

RECURSIVE SumAdjust(_, _, _)
SumAdjust(product_colors, skin_undertone, n) ==
  IF n = 0 THEN 0
  ELSE SumAdjust(product_colors, skin_undertone, n - 1)
         + ColorAdjust(product_colors[n], skin_undertone)

\* A variant that returns the raw sum.
color_compatibility_score_unclamped(product_colors, skin_undertone) ==
  IF product_colors = << >> \/ skin_undertone = "" THEN 50
  ELSE 50 + SumAdjust(product_colors, skin_undertone, Len(product_colors))

color_compatibility_score(product_colors, skin_undertone) ==
  IF product_colors = << >> \/ skin_undertone = "" THEN 50
  ELSE Clamp(50 + SumAdjust(product_colors, skin_undertone, Len(product_colors)))

-----------------------------------------------------------------------------
(* Feature extractor *)

FamilyNames == {COLOR_FAMILIES[i].family : i \in 1..Len(COLOR_FAMILIES)}

Key(name) == << name >>
FamilyKey(family) == << "color_family_", family >>
ToneKey(tone) == << "color_tone_", tone >>

BasicKeys ==
  {Key("category"), Key("gender"), Key("price"), Key("rating"),
   Key("review_count"), Key("num_colors")}

\* A variant whose family counters start empty and grow with the colours seen.
extract_product_features_growing(product) ==
  LET colors == Get(product, "colors", << >>)
      num_colors == Len(colors)
      seen == {Family(colors[i]) : i \in 1..num_colors}
      color_families ==
        [f \in seen |-> Cardinality({i \in 1..num_colors : Family(colors[i]) = f})]
      color_tones ==
        [t \in Tones |-> Cardinality({i \in 1..num_colors : Tone(colors[i]) = t})]
      keys == BasicKeys \cup {FamilyKey(f) : f \in DOMAIN color_families}
                        \cup {ToneKey(t) : t \in DOMAIN color_tones}
  IN [k \in keys |->
        IF k = Key("category") THEN Get(product, "category", "")
        ELSE IF k = Key("gender") THEN Get(product, "gender", "")
        ELSE IF k = Key("price") THEN Get(product, "price", 0)
        ELSE IF k = Key("rating") THEN Get(product, "rating", 0)
        ELSE IF k = Key("review_count") THEN Get(product, "reviewCount", 0)
        ELSE IF k = Key("num_colors") THEN num_colors
        ELSE IF num_colors > 0
        THEN IF k[1] = "color_family_" THEN Frac(color_families[k[2]], num_colors)
                                        ELSE Frac(color_tones[k[2]], num_colors)
        ELSE << 0, 1 >>]

extract_product_features(product) ==
  LET colors == Get(product, "colors", << >>)
      num_colors == Len(colors)
      \* {family: 0 for family in COLOR_FAMILIES.keys()}, then counted under
      \* `if family in color_families`
      color_families ==
        [f \in FamilyNames |->
           Cardinality({i \in 1..num_colors : Family(colors[i]) = f})]
      color_tones ==
        [t \in Tones |-> Cardinality({i \in 1..num_colors : Tone(colors[i]) = t})]
      keys == BasicKeys \cup {FamilyKey(f) : f \in DOMAIN color_families}
                        \cup {ToneKey(t) : t \in DOMAIN color_tones}
  IN [k \in keys |->
        IF k = Key("category") THEN Get(product, "category", "")
        ELSE IF k = Key("gender") THEN Get(product, "gender", "")
        ELSE IF k = Key("price") THEN Get(product, "price", 0)
        ELSE IF k = Key("rating") THEN Get(product, "rating", 0)
        ELSE IF k = Key("review_count") THEN Get(product, "reviewCount", 0)
        ELSE IF k = Key("num_colors") THEN num_colors
        ELSE IF num_colors > 0
        THEN IF k[1] = "color_family_" THEN Frac(color_families[k[2]], num_colors)
                                        ELSE Frac(color_tones[k[2]], num_colors)
        ELSE << 0, 1 >>]

-----------------------------------------------------------------------------
(* Rule-based scorer, labeled variant, and the training-set synthesiser *)

\* A caller-supplied catalog of one profile.
CUSTOM_TONES ==
  << [id |-> "custom", name |-> "Custom", undertone |-> "cool", depth |-> "deep",
      recommendedColors |-> << <<"N","a","v","y"," ","b","l","u","e">>, <<"R","E","D">> >>,
      notRecommendedColors |-> << <<"r","e","d">>, <<"S","p","a","r","k","l","e","s">> >>] >>

SkinToneProfiles ==
  {SKIN_TONES[i] : i \in 1..Len(SKIN_TONES)} \cup {CUSTOM_TONES[1]}

\* set([c.lower() for c in phrases])
LowerSet(phrases) == {lower(phrases[i]) : i \in 1..Len(phrases)}

\* The for ... break loop over a phrase set: does some phrase occur in the
\* lower-cased colour, or the colour in some phrase.
MatchesAny(phrase_set, color) ==
  LET color_lower == lower(color)
  IN \E phrase \in phrase_set :
        Contains(color_lower, phrase) \/ Contains(phrase, color_lower)

RecommendedOf ==
  [c \in ColorNames, t \in SkinToneProfiles |->
     MatchesAny(LowerSet(t.recommendedColors), c)]

NotRecommendedOf ==
  [c \in ColorNames, t \in SkinToneProfiles |->
     MatchesAny(LowerSet(t.notRecommendedColors), c)]

IsRecommended(c, t) == RecommendedOf[c, t]

IsNotRecommended(c, t) == NotRecommendedOf[c, t]

\* The running score after the first n colours of the product.
RECURSIVE LabelSum(_, _, _)
LabelSum(colors, skin_tone, n) ==
  IF n = 0 THEN 0
  ELSE LabelSum(colors, skin_tone, n - 1)
         + (IF IsRecommended(colors[n], skin_tone) THEN 10 ELSE 0)
         - (IF IsNotRecommended(colors[n], skin_tone) THEN 10 ELSE 0)

CategoryBonus(category) == IF category \in {"Tops", "Dresses"} THEN 5 ELSE 0

\* A variant with `elif` between the two loops: a colour that matched a
\* recommended phrase is not tested against the not-recommended ones.
labeled_score_exclusive(product, skin_tone) ==
  Clamp(50 + 10 * Cardinality({i \in 1..Len(product.colors) :
                                 IsRecommended(product.colors[i], skin_tone)})
           - 10 * Cardinality({i \in 1..Len(product.colors) :
                                 /\ ~IsRecommended(product.colors[i], skin_tone)
                                 /\ IsNotRecommended(product.colors[i], skin_tone)})
           + CategoryBonus(product.category))

\* The score of one (product, skin tone) pair; the product has colors and category.
labeled_score(product, skin_tone) ==
  Clamp(50 + LabelSum(product.colors, skin_tone, Len(product.colors))
           + CategoryBonus(product.category))

compatibility_class(score) ==
  IF score >= 70 THEN "high" ELSE IF score >= 40 THEN "medium" ELSE "low"

\* One training sample.
training_row(product, skin_tone) ==
  LET score == labeled_score(product, skin_tone)
  IN extract_product_features(product)
       @@ (Key("undertone") :> skin_tone.undertone)
       @@ (Key("depth") :> skin_tone.depth)
       @@ (Key("compatibility_score") :> score)
       @@ (Key("compatibility_class") :> compatibility_class(score))

\* training_data: one row per product and skin tone, product-major.
training_data(products, skin_tones) ==
  List([k \in 1..(Len(products) * Len(skin_tones)) |->
          training_row(products[((k - 1) \div Len(skin_tones)) + 1],
                       skin_tones[((k - 1) % Len(skin_tones)) + 1])])

\* X.columns.tolist(): the keys of a training row in insertion order, without
\* the two label columns.
FeatureColumns ==
  << Key("category"), Key("gender"), Key("price"), Key("rating"),
     Key("review_count"), Key("num_colors") >>
    \o [i \in 1..Len(COLOR_FAMILIES) |-> FamilyKey(COLOR_FAMILIES[i].family)]
    \o << ToneKey("warm"), ToneKey("cool"), ToneKey("neutral"),
          Key("undertone"), Key("depth") >>

-----------------------------------------------------------------------------
(* Product table, model fit and ranking *)

\* The result of a call that may raise: a value, or the exception.
Value(v) == [ok |-> TRUE, value |-> v]
Raise(exc) == [ok |-> FALSE, exc |-> exc]

\* A DataFrame is the sequence of its rows; features['id'] = product['id']
\* raises KeyError for a product without an id.
prepare_product_dataframe(products) ==
  IF \E i \in 1..Len(products) : "id" \notin DOMAIN products[i]
  THEN Raise("KeyError")
  ELSE Value([rows |-> List([i \in 1..Len(products) |->
                               extract_product_features(products[i])
                                 @@ (Key("id") :> products[i].id)])])

\* The part of train_compatibility_model that its arguments determine: None
\* for an empty list, KeyError for a product without colors or category,
\* otherwise what the fit reads from the training table: the classes
\* present, the feature columns, and the data it was fitted on.
train_compatibility_model(products, skin_tones) ==
  IF products = << >> \/ skin_tones = << >> THEN Value(NONE)
  ELSE IF \E i \in 1..Len(products) :
             "colors" \notin DOMAIN products[i] \/ "category" \notin DOMAIN products[i]
  THEN Raise("KeyError")
  ELSE LET df == training_data(products, skin_tones)
       IN Value([classes_ |-> {df[k][Key("compatibility_class")] : k \in 1..Len(df)},
                 features |-> FeatureColumns,
                 n_samples |-> Len(df),
                 products |-> products,
                 skin_tones |-> List([i \in 1..Len(skin_tones) |-> skin_tones[i].id])])

prepare_user_features(user_info) ==
  (Key("undertone") :> Get(user_info, "undertone", "neutral"))
    @@ (Key("depth") :> Get(user_info, "depth", "medium"))

\* prediction_df[model_features] for one product row: the row merged with the
\* user features (which win), restricted to the model's columns.
PredictionRow(product_row, user_features, model_features) ==
  [k \in {model_features[i] : i \in 1..Len(model_features)} |->
     IF k \in DOMAIN user_features THEN user_features[k] ELSE product_row[k]]

\* a / b < c / d
FracLess(x, y) == x[1] * y[2] < y[1] * x[2]

\* Whether sort_values(ascending=False) places row i before row j.  Rows
\* with equal scores keep their input order under a stable sort; the default
\* kind 'quicksort' promises no order for them, and "unstable" is a build
\* that returns them reversed.
PlacedBefore(scores, i, j, kind) ==
  \/ FracLess(scores[j], scores[i])
  \/ /\ scores[i] = scores[j]
     /\ IF kind = "stable" THEN i < j ELSE i > j

\* The row order after product_df.sort_values('compatibility_score',
\* ascending=False): position r holds the row that r - 1 rows precede.
sort_values(scores, kind) ==
  LET n == Len(scores)
      before == List([i \in 1..n |->
                        Cardinality({j \in 1..n : PlacedBefore(scores, j, i, kind)})])
  IN List([r \in 1..n |-> CHOOSE i \in 1..n : before[i] = r - 1])

\* int(x) of a non-negative float
Trunc(x) == x[1] \div x[2]

\* A variant that returns every row instead of the first top_n.
get_recommendations_all(product_df, user_features, model, top_n, kind) ==
  IF Len(product_df.rows) = 0 THEN Value([recommendations |-> << >>, product_df |-> product_df])
  ELSE IF \E i \in 1..Len(model.features) :
             model.features[i] \notin (DOMAIN product_df.rows[1] \cup DOMAIN user_features)
  THEN Raise("KeyError")
  ELSE LET n == Len(product_df.rows)
           scores == List([i \in 1..n |->
                             Frac(model.classifier.proba[
                                    PredictionRow(product_df.rows[i], user_features,
                                                  model.features)] * 100, 1000)])
           scored == [rows |-> List([i \in 1..n |->
                                       (Key("compatibility_score") :> scores[i])
                                          @@ product_df.rows[i]])]
           order == sort_values(scores, kind)
       IN Value([recommendations |->
                   List([r \in 1..n |->
                           [productId |-> scored.rows[order[r]][Key("id")],
                            compatibilityScore |-> Trunc(scores[order[r]])]]),
                 product_df |-> scored])

\* A variant that sorts the product DataFrame in place
\* (sort_values(inplace=True)), so the caller's table is left reordered.
get_recommendations_inplace(product_df, user_features, model, top_n, kind) ==
  IF Len(product_df.rows) = 0 THEN Value([recommendations |-> << >>, product_df |-> product_df])
  ELSE IF \E i \in 1..Len(model.features) :
             model.features[i] \notin (DOMAIN product_df.rows[1] \cup DOMAIN user_features)
  THEN Raise("KeyError")
  ELSE LET n == Len(product_df.rows)
           scores == List([i \in 1..n |->
                             Frac(model.classifier.proba[
                                    PredictionRow(product_df.rows[i], user_features,
                                                  model.features)] * 100, 1000)])
           scored == [rows |-> List([i \in 1..n |->
                                       (Key("compatibility_score") :> scores[i])
                                          @@ product_df.rows[i]])]
           order == sort_values(scores, kind)
       IN Value([recommendations |->
                   List([r \in 1..Min(top_n, n) |->
                           [productId |-> scored.rows[order[r]][Key("id")],
                            compatibilityScore |-> Trunc(scores[order[r]])]]),
                 product_df |-> [rows |-> List([r \in 1..n |-> scored.rows[order[r]]])]])

\* get_recommendations: the recommendations it returns and the product
\* DataFrame it was given, which it leaves with a compatibility_score column
\* (100 * P(high), or 100 * P(first class) when no sample was labeled high).
\* model.proba is that probability per prediction row, in thousandths.
get_recommendations(product_df, user_features, model, top_n, kind) ==
  IF Len(product_df.rows) = 0 THEN Value([recommendations |-> << >>, product_df |-> product_df])
  ELSE IF \E i \in 1..Len(model.features) :
             model.features[i] \notin (DOMAIN product_df.rows[1] \cup DOMAIN user_features)
  THEN Raise("KeyError")
  ELSE LET n == Len(product_df.rows)
           scores == List([i \in 1..n |->
                             Frac(model.classifier.proba[
                                    PredictionRow(product_df.rows[i], user_features,
                                                  model.features)] * 100, 1000)])
           scored == [rows |-> List([i \in 1..n |->
                                       (Key("compatibility_score") :> scores[i])
                                          @@ product_df.rows[i]])]
           order == sort_values(scores, kind)
       IN Value([recommendations |->
                   List([r \in 1..Min(top_n, n) |->
                           [productId |-> scored.rows[order[r]][Key("id")],
                            compatibilityScore |-> Trunc(scores[order[r]])]]),
                 product_df |-> scored])

-----------------------------------------------------------------------------
(* /api/compatibility *)

\* The level bands at 70 instead of 80.
compatibility_level_70(score) ==
  IF score >= 70 THEN "High" ELSE IF score >= 50 THEN "Medium" ELSE "Low"

compatibility_level(score) ==
  IF score >= 80 THEN "High" ELSE IF score >= 50 THEN "Medium" ELSE "Low"

\* The handler's response to the JSON body `data`.  It reads and writes no
\* global.  The reason text (OpenAI or the fallback template) is left out.
calculate_compatibility(data) ==
  LET product == Get(data, "product", << >>)
      user_info == Get(data, "userInfo", << >>)
  IN IF product = << >>
     THEN [status |-> 400, body |-> [error |-> "No product data provided"]]
     ELSE LET colors == Get(product, "colors", << >>)
              undertone == Get(user_info, "undertone", "")
              basic == color_compatibility_score(colors, undertone)
              category == Get(product, "category", "")
              score == Clamp(IF category \in {"Tops", "Dresses"}
                             THEN basic + 5 ELSE basic)
          IN [status |-> 200,
              body |-> [productId |-> Get(product, "id", ""),
                        compatibilityScore |-> score,
                        compatibilityLevel |-> compatibility_level(score)]]

-----------------------------------------------------------------------------
(* Direct calls of the pure functions: SpecFn draws the arguments of one    *)
(* call in its initial state and the call's action applies the function.    *)

MaxColors == 11

\* k copies of one colour name.
Rep(c, k) == List([i \in 1..k |-> c])

\* The colour lists: a run of one colour followed by a run of another, of
\* at most MaxColors colours in all (<< >>, <<Navy, Red>>, eleven Reds, ...).
ColorLists(palette) ==
  {Rep(a, km[1]) \o Rep(b, km[2]) :
     a \in palette, b \in palette,
     km \in {x \in (0..MaxColors) \X (0..MaxColors) : x[1] + x[2] <= MaxColors}}

Undertones == {"warm", "cool", "neutral", ""}

ScoreCalls ==
  {[fn |-> "color_compatibility_score", product_colors |-> cs, skin_undertone |-> u] :
     cs \in ColorLists({Navy, Red, White, OliveGreen, Sparkle}), u \in Undertones}

LabelCalls ==
  {[fn |-> "labeled_score",
    product |-> [id |-> "p", colors |-> cs, category |-> cat],
    skin_tone |-> t] :
     cs \in ColorLists({Navy, Red, Sparkle}), cat \in {"Tops", "Pants"},
     t \in {SKIN_TONES[1], SKIN_TONES[4], SKIN_TONES[9], CUSTOM_TONES[1]}}

\* A product dict with the given colours: with every field, with only the
\* required ones, or without its colors key.
ProductShapes(cs) ==
  {[id |-> "p", colors |-> cs, category |-> "Dresses", gender |-> "female",
    price |-> 4950, rating |-> 41, reviewCount |-> 7],
   [id |-> "p", colors |-> cs, category |-> "Pants"],
   [id |-> "p", category |-> "Pants", price |-> 100 * Len(cs)]}

FeatureCalls ==
  {[fn |-> "extract_product_features", product |-> p] :
     p \in UNION {ProductShapes(cs) :
                    cs \in ColorLists({Navy, Red, White, OliveGreen, Sparkle})}}

CompatProducts ==
  UNION {{[colors |-> cs, category |-> "Tops"], [colors |-> cs, category |-> "Pants"],
          [id |-> "p", colors |-> cs]} : cs \in ColorLists({Navy, Red, White})}

CompatCalls ==
  {[fn |-> "calculate_compatibility", data |-> [product |-> p, userInfo |-> ui]] :
     p \in CompatProducts,
     ui \in {[undertone |-> "warm"], [undertone |-> "cool"],
             [undertone |-> "neutral"], [depth |-> "light"]}}
    \cup {[fn |-> "calculate_compatibility", data |-> [userInfo |-> [undertone |-> "cool"]]]}

\* Colour strings handed to the lexicon directly: the casings of a name,
\* names holding tokens of several entries, a name in no table, the empty
\* string, and "pink" written with a dotless i.
ColorStrings ==
  {Navy, <<"N","A","V","Y">>, <<"n","a","v","y">>, OliveGreen, <<"o","l","i","v","e"," ","g","r","e","e","n">>, <<"O","L","I","V","E"," ","G","R","E","E","N">>,
   <<"o","r","a","n","g","e"," ","r","e","d">>, <<"O","r","a","n","g","e"," ","R","e","d">>, <<"b","l","u","e"," ","g","r","e","e","n">>, <<"H","o","t"," ","P","i","n","k">>,
   <<"p","i","n","k">>, <<"P","I","N","K">>, <<"s","k","y">>,
   <<"p", DotlessI, "n", "k">>, Red, White, Sparkle, << >>}

ToneCalls == {[fn |-> "get_color_tone", color_str |-> c] : c \in ColorStrings}

FamilyCalls == {[fn |-> "get_color_family", color_str |-> c] : c \in ColorStrings}

\* The training table of a product list and a profile list.
TrainingCalls ==
  {[fn |-> "training_data", products |-> pl, skin_tones |-> st] :
     pl \in {SAMPLE_PRODUCTS,
              SAMPLE_PRODUCTS
                \o << [id |-> "2", colors |-> <<Red, Sparkle>>, category |-> "Pants"],
                      [id |-> "3", colors |-> << >>, category |-> "Dresses"] >>},
     st \in {SKIN_TONES, CUSTOM_TONES}}

Calls ==
  ScoreCalls \cup LabelCalls \cup FeatureCalls \cup CompatCalls
    \cup ToneCalls \cup FamilyCalls \cup TrainingCalls

ServerInit ==
  /\ product_data = NONE
  /\ models = << >>
  /\ req = NONE
  /\ resp = NONE

InitFn ==
  /\ ServerInit
  /\ sort_kind = "stable"
  /\ args \in Calls
  /\ ret = NONE
  /\ threads = << >>

CallScore ==
  /\ ret = NONE /\ args.fn = "color_compatibility_score"
  /\ ret' = [value |-> color_compatibility_score(args.product_colors, args.skin_undertone)]
  /\ UNCHANGED <<product_data, models, sort_kind, req, resp, args, threads>>

CallLabel ==
  /\ ret = NONE /\ args.fn = "labeled_score"
  /\ ret' = [value |-> labeled_score(args.product, args.skin_tone)]
  /\ UNCHANGED <<product_data, models, sort_kind, req, resp, args, threads>>

CallFeatures ==
  /\ ret = NONE /\ args.fn = "extract_product_features"
  /\ ret' = [value |-> extract_product_features(args.product)]
  /\ UNCHANGED <<product_data, models, sort_kind, req, resp, args, threads>>

CallCompat ==
  /\ ret = NONE /\ args.fn = "calculate_compatibility"
  /\ ret' = [value |-> calculate_compatibility(args.data)]
  /\ UNCHANGED <<product_data, models, sort_kind, req, resp, args, threads>>

CallTone ==
  /\ ret = NONE /\ args.fn = "get_color_tone"
  /\ ret' = [value |-> get_color_tone(args.color_str)]
  /\ UNCHANGED <<product_data, models, sort_kind, req, resp, args, threads>>

CallFamily ==
  /\ ret = NONE /\ args.fn = "get_color_family"
  /\ ret' = [value |-> get_color_family(args.color_str)]
  /\ UNCHANGED <<product_data, models, sort_kind, req, resp, args, threads>>

CallTraining ==
  /\ ret = NONE /\ args.fn = "training_data"
  /\ ret' = [value |-> training_data(args.products, args.skin_tones)]
  /\ UNCHANGED <<product_data, models, sort_kind, req, resp, args, threads>>

NextFn ==
  \/ CallScore \/ CallLabel \/ CallFeatures \/ CallCompat
  \/ CallTone \/ CallFamily \/ CallTraining

SpecFn == InitFn /\ [][NextFn]_vars

Returned(fn) == ret # NONE /\ args.fn = fn

-----------------------------------------------------------------------------
(* The requests the clients send *)

TOP_N == 20

\* The longest catalog a request carries has TOP_N + ExtraProducts products.
ExtraProducts == 1

ProductIds ==
  << "p1", "p2", "p3", "p4", "p5", "p6", "p7", "p8", "p9", "p10", "p11", "p12",
     "p13", "p14", "p15", "p16", "p17", "p18", "p19", "p20", "p21", "p22", "p23", "p24" >>

\* Two kinds of well-formed product: one with every field, one with an empty
\* colour list and without the optional fields.
TopProduct(i) ==
  [id |-> ProductIds[i], colors |-> <<Navy, Red>>, category |-> "Tops",
   gender |-> "unisex", price |-> 2500, rating |-> 40, reviewCount |-> 10]

PlainProduct(i) == [id |-> ProductIds[i], colors |-> << >>, category |-> "Pants"]

\* A catalog of n products with distinct ids, the two kinds alternating.
Catalog(n) ==
  List([i \in 1..n |-> IF i % 2 = 1 THEN TopProduct(i) ELSE PlainProduct(i)])

\* Malformed records: a product without an id, a product without colors.
NoIdProducts == << [colors |-> <<Navy>>, category |-> "Tops"] >>
NoColorsProducts == << [id |-> "p1", category |-> "Pants"] >>

ProductLists ==
  {Catalog(n) : n \in {1, 3, TOP_N + ExtraProducts}}
    \cup {NoIdProducts, NoColorsProducts}

SkinToneLists == {SKIN_TONES, CUSTOM_TONES, << >>}

\* /api/initialize bodies: products alone (skinTones defaults to SKIN_TONES),
\* products with an empty or a custom skinTones list, and no products.
InitializeRequests ==
  {[products |-> pl] : pl \in ProductLists \cup {<< >>}}
    \cup {[products |-> pl, skinTones |-> << >>] : pl \in ProductLists}
    \cup {[products |-> Catalog(3), skinTones |-> CUSTOM_TONES],
          [skinTones |-> CUSTOM_TONES]}

\* The user of the requests; a body without userInfo gets the same features
\* from the defaults of prepare_user_features.
UserInfo == [undertone |-> "neutral", depth |-> "medium"]

RecommendRequests ==
  {[userInfo |-> UserInfo]}
    \cup {[userInfo |-> UserInfo, products |-> pl] : pl \in ProductLists}
    \cup {[products |-> Catalog(3)]}

CompatibilityRequests ==
  {[product |-> [id |-> "p1", colors |-> <<Navy, Red>>, category |-> "Tops"],
    userInfo |-> [undertone |-> "cool"]],
   [userInfo |-> [undertone |-> "cool"]]}

\* prepare_product_dataframe and train_compatibility_model computed once per
\* argument that a request can carry.
PreparedOf == [pl \in ProductLists |-> prepare_product_dataframe(pl)]

TrainedOf ==
  [pl \in ProductLists \cup {SAMPLE_PRODUCTS, << >>}, st \in SkinToneLists |->
     train_compatibility_model(pl, st)]

Prepared(products) == PreparedOf[products]

Trained(products, skin_tones) == TrainedOf[products, skin_tones]

\* The fitted pipeline is an opaque RandomForestClassifier with a fixed seed:
\* some function from a prediction row to the probability of the class that
\* get_recommendations reads (in thousandths).  The rows below are those the
\* requests can produce; a forest fitted on a single class gives it
\* probability 1 everywhere.
PredictionRows ==
  {PredictionRow(extract_product_features(p), prepare_user_features(ui), FeatureColumns) :
     p \in {TopProduct(1), PlainProduct(1)}, ui \in {UserInfo}}

Classifiers(trained) ==
  IF ~trained.ok \/ trained.value = NONE THEN {NONE}
  ELSE IF Cardinality(trained.value.classes_) = 1 THEN {[x \in PredictionRows |-> 1000]}
  ELSE [PredictionRows -> {250, 905}]

\* The dict train_compatibility_model returns after clf_pipeline.fit(X, y_class).
Fitted(trained, proba) ==
  [classifier |-> [classes_ |-> trained.classes_,
                   proba |-> proba,
                   X |-> [products |-> trained.products,
                          skin_tones |-> trained.skin_tones,
                          n_samples |-> trained.n_samples]],
   features |-> trained.features]

-----------------------------------------------------------------------------
(* The handlers.  Each gives the globals after the request and the response; *)
(* proba is the function the fit produces if the handler fits a model.      *)

Json(status, body) == [status |-> status, body |-> body]

\* An exception that leaves the handler: Flask answers 500 with its own page.
Unhandled(exc) == [status |-> 500, body |-> [exception |-> exc]]

After(pd, ms, response) == [product_data |-> pd, models |-> ms, resp |-> response]

\* A variant that drops the stored table when the request has no products.
initialize_engine_clearing(data, proba) ==
  LET products == Get(data, "products", << >>)
      skin_tones == Get(data, "skinTones", SKIN_TONES)
      df == Prepared(products)
      trained == Trained(products, skin_tones)
  IN IF products = << >>
     THEN After(NONE, models, Json(400, [error |-> "No product data provided"]))
     ELSE IF ~df.ok
     THEN After(product_data, models, Json(500, [error |-> "Error initializing engine"]))
     ELSE IF ~trained.ok
     THEN After(df.value, models, Json(500, [error |-> "Error initializing engine"]))
     ELSE IF trained.value = NONE
     THEN After(df.value, models, Json(500, [error |-> "Failed to train models"]))
     ELSE After(df.value, [compatibility |-> Fitted(trained.value, proba)],
                Json(200, [status |-> "success",
                           message |-> "Models trained successfully"]))

\* A variant that empties models when the training fails.
initialize_engine_untraining(data, proba) ==
  LET products == Get(data, "products", << >>)
      skin_tones == Get(data, "skinTones", SKIN_TONES)
      df == Prepared(products)
      trained == Trained(products, skin_tones)
  IN IF products = << >>
     THEN After(product_data, models, Json(400, [error |-> "No product data provided"]))
     ELSE IF ~df.ok
     THEN After(product_data, models, Json(500, [error |-> "Error initializing engine"]))
     ELSE IF ~trained.ok
     THEN After(df.value, << >>, Json(500, [error |-> "Error initializing engine"]))
     ELSE IF trained.value = NONE
     THEN After(df.value, << >>, Json(500, [error |-> "Failed to train models"]))
     ELSE After(df.value, [compatibility |-> Fitted(trained.value, proba)],
                Json(200, [status |-> "success",
                           message |-> "Models trained successfully"]))

initialize_engine(data, proba) ==
  LET products == Get(data, "products", << >>)
      skin_tones == Get(data, "skinTones", SKIN_TONES)
      df == Prepared(products)
      trained == Trained(products, skin_tones)
  IN IF products = << >>
     THEN After(product_data, models, Json(400, [error |-> "No product data provided"]))
     ELSE IF ~df.ok
     THEN After(product_data, models, Json(500, [error |-> "Error initializing engine"]))
     ELSE IF ~trained.ok
     THEN After(df.value, models, Json(500, [error |-> "Error initializing engine"]))
     ELSE IF trained.value = NONE
     THEN After(df.value, models, Json(500, [error |-> "Failed to train models"]))
     ELSE After(df.value, [compatibility |-> Fitted(trained.value, proba)],
                Json(200, [status |-> "success",
                           message |-> "Models trained successfully"]))

recommend_products(data, proba) ==
  LET user_info == Get(data, "userInfo", << >>)
      products == Get(data, "products", << >>)
      df == Prepared(products)
  IN IF products # << >> /\ ~df.ok
     THEN After(product_data, models, Unhandled(df.exc))
     ELSE
       LET table == IF products # << >> THEN df.value ELSE product_data
           untrained == "compatibility" \notin DOMAIN models
           trained == Trained(IF products # << >> THEN products ELSE SAMPLE_PRODUCTS,
                              SKIN_TONES)
       IN IF table = NONE \/ Len(table.rows) = 0
          THEN After(table, models, Json(400, [error |-> "No product data available"]))
          ELSE IF untrained /\ ~trained.ok
          THEN After(table, models, Unhandled(trained.exc))
          ELSE IF untrained /\ trained.value = NONE
          THEN After(table, models, Json(500, [error |-> "Recommendation model not trained"]))
          ELSE
            LET models1 == IF untrained
                           THEN [compatibility |-> Fitted(trained.value, proba)]
                           ELSE models
                r == get_recommendations(table, prepare_user_features(user_info),
                                         models1.compatibility, TOP_N, sort_kind)
            IN IF ~r.ok
               THEN After(table, models1,
                          Json(500, [error |-> "Error generating recommendations"]))
               ELSE After(r.value.product_df, models1,
                          Json(200, [status |-> "success",
                                     recommendations |-> r.value.recommendations]))

-----------------------------------------------------------------------------
(* The server: one action per endpoint, a request answered to completion *)

Init ==
  /\ ServerInit
  /\ sort_kind \in {"stable", "unstable"}
  /\ args = NONE
  /\ ret = NONE
  /\ threads = << >>

Initialize ==
  \E data \in InitializeRequests :
    \E proba \in Classifiers(Trained(Get(data, "products", << >>),
                                     Get(data, "skinTones", SKIN_TONES))) :
      \E after \in {initialize_engine(data, proba)} :
         /\ product_data' = after.product_data
         /\ models' = after.models
         /\ req' = [api |-> "initialize", data |-> data]
         /\ resp' = after.resp
         /\ UNCHANGED <<sort_kind, args, ret, threads>>

Recommend ==
  \E data \in RecommendRequests :
    \E proba \in (IF "compatibility" \in DOMAIN models THEN {NONE}
                  ELSE Classifiers(Trained(IF Get(data, "products", << >>) # << >>
                                           THEN data.products ELSE SAMPLE_PRODUCTS,
                                           SKIN_TONES))) :
      \E after \in {recommend_products(data, proba)} :
         /\ product_data' = after.product_data
         /\ models' = after.models
         /\ req' = [api |-> "recommend", data |-> data]
         /\ resp' = after.resp
         /\ UNCHANGED <<sort_kind, args, ret, threads>>

Compatibility ==
  \E data \in CompatibilityRequests :
    /\ req' = [api |-> "compatibility", data |-> data]
    /\ resp' = calculate_compatibility(data)
    /\ UNCHANGED <<product_data, models, sort_kind, args, ret, threads>>

Next == Initialize \/ Recommend \/ Compatibility

Spec == Init /\ [][Next]_vars

-----------------------------------------------------------------------------
(* The threaded server.  app.run serves each request on a thread of its     *)
(* own and the handlers take no lock, so handlers interleave between their  *)
(* accesses to the globals.  A step of a thread runs its handler up to and  *)
(* including its next write of a global.                                    *)

Threads == {"t1", "t2"}

\* The number of requests the server accepts in one behaviour.
MaxRequests == 3

ConcInitializeRequests == {[products |-> Catalog(1)], [products |-> Catalog(3)]}

ConcRecommendRequests == {[userInfo |-> UserInfo]}

IdleThread ==
  [pc |-> "idle", api |-> "", data |-> NONE, model |-> NONE, read |-> NONE,
   resp |-> NONE, requests |-> 0]

\* The requests accepted so far.
RECURSIVE Accepted(_)
Accepted(T) ==
  IF T = {} THEN 0
  ELSE LET t == CHOOSE x \in T : TRUE
       IN threads[t].requests + Accepted(T \ {t})

\* The thread takes a request and is at `pc` of its handler.
Running(th, api, data, pc) ==
  [pc |-> pc, api |-> api, data |-> data, model |-> NONE, read |-> NONE,
   resp |-> NONE, requests |-> th.requests + 1]

\* The handler returns the response.
Answer(th, response) == [th EXCEPT !.pc = "idle", !.resp = response]

\* models['compatibility'] = model, kept by the one that misses the store.
install_model_if_absent(ms, model) ==
  IF "compatibility" \in DOMAIN ms THEN ms ELSE [compatibility |-> model]

\* models['compatibility'] = model
install_model(ms, model) == [compatibility |-> model]

InitConc ==
  /\ ServerInit
  /\ sort_kind \in {"stable", "unstable"}
  /\ args = NONE
  /\ ret = NONE
  /\ threads = [t \in Threads |-> IdleThread]

\* initialize_engine up to the assignment of product_data.
I_Prepare(t) ==
  /\ threads[t].pc = "idle"
  /\ Accepted(Threads) < MaxRequests
  /\ \E data \in ConcInitializeRequests :
       \E products \in {Get(data, "products", << >>)} :
         \E th \in {Running(threads[t], "initialize", data, "train")} :
           IF products = << >>
           THEN /\ product_data' = product_data
                /\ threads' = [threads EXCEPT ![t] =
                     Answer(th, Json(400, [error |-> "No product data provided"]))]
           ELSE IF ~Prepared(products).ok
           THEN /\ product_data' = product_data
                /\ threads' = [threads EXCEPT ![t] =
                     Answer(th, Json(500, [error |-> "Error initializing engine"]))]
           ELSE /\ product_data' = Prepared(products).value
                /\ threads' = [threads EXCEPT ![t] = th]
  /\ UNCHANGED <<models, sort_kind, req, resp, args, ret>>

\* initialize_engine from the training to the return.
I_Train(t) ==
  /\ threads[t].pc = "train"
  /\ \E trained \in {Trained(Get(threads[t].data, "products", << >>),
                             Get(threads[t].data, "skinTones", SKIN_TONES))} :
       \E proba \in Classifiers(trained) :
         IF ~trained.ok
         THEN /\ models' = models
              /\ threads' = [threads EXCEPT ![t] =
                   Answer(@, Json(500, [error |-> "Error initializing engine"]))]
         ELSE IF trained.value = NONE
         THEN /\ models' = models
              /\ threads' = [threads EXCEPT ![t] =
                   Answer(@, Json(500, [error |-> "Failed to train models"]))]
         ELSE /\ models' = install_model(models, Fitted(trained.value, proba))
              /\ threads' = [threads EXCEPT ![t] =
                   Answer([@ EXCEPT !.model = Fitted(trained.value, proba)],
                          Json(200, [status |-> "success",
                                     message |-> "Models trained successfully"]))]
  /\ UNCHANGED <<product_data, sort_kind, req, resp, args, ret>>

\* recommend_products up to the test of the product table.
R_Prepare(t) ==
  /\ threads[t].pc = "idle"
  /\ Accepted(Threads) < MaxRequests
  /\ \E data \in ConcRecommendRequests :
       \E products \in {Get(data, "products", << >>)} :
         \E th \in {Running(threads[t], "recommend", data, "fit")} :
           IF products # << >> /\ ~Prepared(products).ok
           THEN /\ product_data' = product_data
                /\ threads' = [threads EXCEPT ![t] =
                     Answer(th, Unhandled(Prepared(products).exc))]
           ELSE
             \E table \in {IF products # << >> THEN Prepared(products).value
                           ELSE product_data} :
               /\ product_data' = table
               /\ threads' = [threads EXCEPT ![t] =
                    IF table = NONE \/ Len(table.rows) = 0
                    THEN Answer(th, Json(400, [error |-> "No product data available"]))
                    ELSE th]
  /\ UNCHANGED <<models, sort_kind, req, resp, args, ret>>

\* recommend_products: the test for a stored model and, without one, the
\* training of a model of its own.
R_Fit(t) ==
  /\ threads[t].pc = "fit"
  /\ IF "compatibility" \in DOMAIN models
     THEN threads' = [threads EXCEPT ![t].pc = "rank"]
     ELSE \E products \in {Get(threads[t].data, "products", << >>)} :
            \E trained \in {Trained(IF products # << >> THEN products
                                    ELSE SAMPLE_PRODUCTS, SKIN_TONES)} :
              \E proba \in Classifiers(trained) :
                threads' = [threads EXCEPT ![t] =
                  IF ~trained.ok THEN Answer(@, Unhandled(trained.exc))
                  ELSE [@ EXCEPT !.pc = "install",
                                 !.model = IF trained.value = NONE THEN NONE
                                           ELSE Fitted(trained.value, proba)]]
  /\ UNCHANGED <<product_data, models, sort_kind, req, resp, args, ret>>

\* recommend_products: the model it trained is stored, or 500 without one.
R_Install(t) ==
  /\ threads[t].pc = "install"
  /\ IF threads[t].model # NONE
     THEN /\ models' = install_model(models, threads[t].model)
          /\ threads' = [threads EXCEPT ![t].pc = "rank"]
     ELSE /\ models' = models
          /\ threads' = [threads EXCEPT ![t] =
               Answer(@, Json(500, [error |-> "Recommendation model not trained"]))]
  /\ UNCHANGED <<product_data, sort_kind, req, resp, args, ret>>

\* recommend_products: the ranking of the stored table with the stored
\* model, both read when get_recommendations is called.
R_Rank(t) ==
  /\ threads[t].pc = "rank"
  /\ \E r \in {get_recommendations(product_data,
                                   prepare_user_features(
                                     Get(threads[t].data, "userInfo", << >>)),
                                   models.compatibility, TOP_N, sort_kind)} :
       \E th \in {[threads[t] EXCEPT
                     !.read = [product_df |-> product_data,
                               model |-> models.compatibility]]} :
         IF ~r.ok
         THEN /\ product_data' = product_data
              /\ threads' = [threads EXCEPT ![t] =
                   Answer(th, Json(500, [error |-> "Error generating recommendations"]))]
         ELSE /\ product_data' = r.value.product_df
              /\ threads' = [threads EXCEPT ![t] =
                   Answer(th, Json(200, [status |-> "success",
                                         recommendations |-> r.value.recommendations]))]
  /\ UNCHANGED <<models, sort_kind, req, resp, args, ret>>

NextConc ==
  \E t \in Threads :
    \/ I_Prepare(t)
    \/ I_Train(t)
    \/ R_Prepare(t)
    \/ R_Fit(t)
    \/ R_Install(t)
    \/ R_Rank(t)

SpecConc == InitConc /\ [][NextConc]_vars

-----------------------------------------------------------------------------
(* Properties of the pure functions, checked under SpecFn *)

\* C1: every rule-based score is between 0 and 100 inclusive: the value
\* color_compatibility_score returns, the labeled score of a (product,
\* profile) pair, and the compatibilityScore /api/compatibility returns.
C1_ScoreBounded ==
  /\ Returned("color_compatibility_score") => ret.value \in 0..100
  /\ Returned("labeled_score") => ret.value \in 0..100
  /\ (Returned("calculate_compatibility") /\ ret.value.status = 200)
        => ret.value.body.compatibilityScore \in 0..100

\* A list of clashing colours long enough to push the raw sum below 0.
C1_Witness ==
  /\ Returned("color_compatibility_score")
  /\ 50 + SumAdjust(args.product_colors, args.skin_undertone, Len(args.product_colors)) < 0
  /\ ret.value = 0

\* The reference of C2 and C3: 50, +10 per colour whose tone equals the
\* undertone, +5 per colour where one side is neutral and they differ, -5 per
\* colour where both are non-neutral and differ.
RefAdditive(colors, undertone) ==
  LET idx == 1..Len(colors)
      same == {i \in idx : Tone(colors[i]) = undertone}
      oneNeutral == {i \in idx : /\ Tone(colors[i]) # undertone
                                 /\ (Tone(colors[i]) = "neutral" \/ undertone = "neutral")}
      clash == {i \in idx : /\ Tone(colors[i]) # undertone
                            /\ Tone(colors[i]) # "neutral"
                            /\ undertone # "neutral"}
  IN 50 + 10 * Cardinality(same) + 5 * Cardinality(oneNeutral) - 5 * Cardinality(clash)

\* C2 as stated: color_compatibility_score is 50 for an empty colour list and
\* otherwise the clamped additive reference, for every undertone.
C2_Original ==
  Returned("color_compatibility_score") =>
    ret.value = IF args.product_colors = << >> THEN 50
                ELSE Clamp(RefAdditive(args.product_colors, args.skin_undertone))

\* The simple scorer as the code computes it: 50 when the colour list or the
\* undertone is empty, otherwise the clamped additive reference.
RefSimple(colors, undertone) ==
  IF colors = << >> \/ undertone = "" THEN 50
  ELSE Clamp(RefAdditive(colors, undertone))

\* C2 (amended): color_compatibility_score is 50 when the colour list is
\* empty or the undertone is empty or missing, and otherwise the clamped
\* additive reference; <<Navy, Red>> with "cool" gives 55.
C2_ScoreIsReference ==
  Returned("color_compatibility_score") =>
    /\ ret.value = RefSimple(args.product_colors, args.skin_undertone)
    /\ (args.product_colors = <<Navy, Red>> /\ args.skin_undertone = "cool")
          => ret.value = 55

C2_Witness ==
  /\ Returned("color_compatibility_score")
  /\ args.product_colors = <<Navy, Red>> /\ args.skin_undertone = "cool"
  /\ ret.value = 55

\* The arguments of a /api/compatibility call that was answered with 200.
CompatColors == Get(args.data.product, "colors", << >>)
CompatUndertone == Get(Get(args.data, "userInfo", << >>), "undertone", "")
CompatBonus ==
  IF Get(args.data.product, "category", "") \in {"Tops", "Dresses"} THEN 5 ELSE 0
CompatAnswered == Returned("calculate_compatibility") /\ ret.value.status = 200

\* The level bands of C3: High exactly from 80, Medium exactly in 50..79.
LevelBands(body) ==
  /\ body.compatibilityLevel = "High" <=> body.compatibilityScore >= 80
  /\ body.compatibilityLevel = "Medium" <=> body.compatibilityScore \in 50..79
  /\ body.compatibilityLevel = "Low" <=> body.compatibilityScore < 50

\* C3 as stated: the compatibilityScore is the additive total (baseline,
\* per-colour adjustments, category bonus) clamped once to [0,100].
C3_Original ==
  CompatAnswered =>
    /\ ret.value.body.compatibilityScore
         = Clamp(RefAdditive(CompatColors, CompatUndertone) + CompatBonus)
    /\ LevelBands(ret.value.body)

\* C3 (amended): the compatibilityScore is the simple scorer's result (50
\* for an empty colour list or undertone, and already clamped to [0,100])
\* plus the category bonus, clamped again; the level bands are as stated;
\* {colors: [Navy, Red], category: Tops} with "cool" gives 60 and "Medium".
C3_CompatScore ==
  CompatAnswered =>
    /\ ret.value.body.compatibilityScore
         = Clamp(RefSimple(CompatColors, CompatUndertone) + CompatBonus)
    /\ LevelBands(ret.value.body)
    /\ (/\ CompatColors = <<Navy, Red>>
        /\ CompatUndertone = "cool"
        /\ Get(args.data.product, "category", "") = "Tops")
          => /\ ret.value.body.compatibilityScore = 60
             /\ ret.value.body.compatibilityLevel = "Medium"

\* A product whose colours push the simple scorer to 0 and whose category
\* bonus then lifts the answer to 5.
C3_Witness ==
  /\ CompatAnswered
  /\ RefAdditive(CompatColors, CompatUndertone) < 0
  /\ CompatBonus = 5
  /\ ret.value.body.compatibilityScore = 5
  /\ ret.value.body.compatibilityLevel = "Low"

\* The feature schema: the six basic keys, one key per colour family of the
\* family table and one per tone.
FeatureSchema ==
  {<<"category">>, <<"gender">>, <<"price">>, <<"rating">>,
   <<"review_count">>, <<"num_colors">>}
    \cup {<<"color_family_", f>> :
            f \in {"red", "pink", "orange", "yellow", "green", "blue",
                   "purple", "brown", "neutral"}}
    \cup {<<"color_tone_", t>> : t \in {"warm", "cool", "neutral"}}

\* C4: whatever the product (empty colour list, colours of family "other",
\* missing optional fields), extract_product_features returns a feature
\* vector with exactly the keys of the schema, so any two products get the
\* same key set.
C4_FixedSchema ==
  Returned("extract_product_features") => DOMAIN ret.value = FeatureSchema

\* A product with a colour of family "other" and without its optional fields.
C4_Witness ==
  /\ Returned("extract_product_features")
  /\ "gender" \notin DOMAIN args.product
  /\ "colors" \in DOMAIN args.product
  /\ \E i \in 1..Len(args.product.colors) : Family(args.product.colors[i]) = "other"
  /\ \E i \in 1..Len(args.product.colors) : Family(args.product.colors[i]) # "other"

-----------------------------------------------------------------------------
(* Properties of the server, checked under Spec *)

\* The last request was /api/recommend and was answered with 200.
RecommendAnswered == req # NONE /\ req.api = "recommend" /\ resp.status = 200

\* The recommendations of the last response, and the rows of the stored
\* table, which that request left with their predicted scores.
Recs == resp.body.recommendations
Rows == product_data.rows

\* C5 as stated: min(20, N) recommendations, the compatibilityScore values
\* strictly descending.
C5_Original ==
  RecommendAnswered =>
    /\ Len(Recs) = Min(TOP_N, Len(Rows))
    /\ \A i \in 1..(Len(Recs) - 1) :
          Recs[i].compatibilityScore > Recs[i + 1].compatibilityScore

\* C5 (amended): a /api/recommend request answered from a table of N
\* products returns exactly min(20, N) recommendations whose
\* compatibilityScore values never increase; products with equal scores
\* follow each other.
C5_RankedTopN ==
  RecommendAnswered =>
    /\ Len(Recs) = Min(TOP_N, Len(Rows))
    /\ \A i \in 1..(Len(Recs) - 1) :
          Recs[i].compatibilityScore >= Recs[i + 1].compatibilityScore

\* A table of more than 20 products, cut to 20 recommendations that hold
\* both a tie and a strict descent.
C5_Witness ==
  /\ RecommendAnswered
  /\ Len(Rows) > TOP_N
  /\ Len(Recs) = TOP_N
  /\ \E i \in 1..(Len(Recs) - 1) :
        Recs[i].compatibilityScore > Recs[i + 1].compatibilityScore
  /\ \E i \in 1..(Len(Recs) - 1) :
        Recs[i].compatibilityScore = Recs[i + 1].compatibilityScore

\* The position in the product table of the product with the given id, and
\* the score predicted for it.
RowOf(id) == CHOOSE k \in 1..Len(Rows) : Rows[k][Key("id")] = id
PredictedScore(id) == Rows[RowOf(id)][Key("compatibility_score")]

\* C6: of two recommended products with the same predicted score, the one
\* that is earlier in the product table is earlier in the recommendations.
C6_StableTies ==
  RecommendAnswered =>
    \A i \in 1..Len(Recs) : \A j \in (i + 1)..Len(Recs) :
       PredictedScore(Recs[i].productId) = PredictedScore(Recs[j].productId)
         => RowOf(Recs[i].productId) < RowOf(Recs[j].productId)

\* The products of a request body.
ProductsOf(data) == Get(data, "products", << >>)

\* The stored table is the one built from `products`; the stored model is
\* the one fitted on `products`.
TableIsOf(table, products) ==
  /\ products # << >>
  /\ Prepared(products).ok
  /\ table = Prepared(products).value

ModelIsOf(ms, products) ==
  /\ "compatibility" \in DOMAIN ms
  /\ ms.compatibility.classifier.X.products = products

\* Every product of the list has the fields the handlers index.
WellFormed(products) ==
  \A i \in 1..Len(products) : {"id", "colors", "category"} \subseteq DOMAIN products[i]

\* C7: a /api/initialize call leaves the stored table and the stored model
\* either both built from the products of that call or both as they were
\* (stated for requests whose products carry every field).
C7_AtomicInitialize ==
  [][(req'.api = "initialize" /\ WellFormed(ProductsOf(req'.data))) =>
       \/ UNCHANGED <<product_data, models>>
       \/ /\ TableIsOf(product_data', ProductsOf(req'.data))
          /\ ModelIsOf(models', ProductsOf(req'.data))]_vars

\* The ids of the products a table or a product list holds, in order.
TableIds(table) == [k \in 1..Len(table.rows) |-> table.rows[k][Key("id")]]
ListIds(products) == [k \in 1..Len(products) |-> products[k].id]

\* C8: a /api/recommend request with well-formed products that finds no
\* model stored is answered 400 exactly when it has no products and no
\* table is stored; otherwise it is answered 200 and leaves a model fitted
\* on the available product data: the request's products, or else the
\* stored table.
C8_LazyFit ==
  [][(/\ req'.api = "recommend"
      /\ "compatibility" \notin DOMAIN models
      /\ WellFormed(ProductsOf(req'.data)))
       => /\ resp'.status = 400
               <=> (ProductsOf(req'.data) = << >> /\ product_data = NONE)
          /\ resp'.status # 400
               => /\ resp'.status = 200
                  /\ "compatibility" \in DOMAIN models'
                  /\ IF ProductsOf(req'.data) # << >>
                     THEN ModelIsOf(models', ProductsOf(req'.data))
                     ELSE ListIds(models'.compatibility.classifier.X.products)
                            = TableIds(product_data)]_vars

\* C9: the lazy fit of /api/recommend is trained on SAMPLE_PRODUCTS only
\* when the request has no products and no table is stored.
C9_SampleOnlyAsLastResort ==
  [][(/\ req'.api = "recommend"
      /\ "compatibility" \notin DOMAIN models
      /\ ModelIsOf(models', SAMPLE_PRODUCTS))
       => (ProductsOf(req'.data) = << >> /\ product_data = NONE)]_vars

\* The fit of /api/initialize fails: no skin tone to pair the products
\* with, or a product without a field that the table or the labels need.
FitFails(data) ==
  \/ Get(data, "skinTones", SKIN_TONES) = << >>
  \/ ~WellFormed(ProductsOf(data))

\* C10: /api/initialize answers 400 exactly when products is empty or
\* absent and then leaves the stored table and model unchanged; 500 exactly
\* when products is non-empty and the fit fails; 200 with status "success"
\* otherwise, the stored model then being the one fitted on this call's
\* products and skin tones.
C10_InitializeStatus ==
  [][req'.api = "initialize" =>
       /\ resp'.status \in {200, 400, 500}
       /\ resp'.status = 400 <=> ProductsOf(req'.data) = << >>
       /\ resp'.status = 400 => UNCHANGED <<product_data, models>>
       /\ resp'.status = 500
            <=> (ProductsOf(req'.data) # << >> /\ FitFails(req'.data))
       /\ resp'.status = 200
            => /\ resp'.body.status = "success"
               /\ ModelIsOf(models', ProductsOf(req'.data))
               /\ models'.compatibility.classifier.X.skin_tones
                    = List([i \in 1..Len(Get(req'.data, "skinTones", SKIN_TONES)) |->
                              Get(req'.data, "skinTones", SKIN_TONES)[i].id])
               /\ TableIsOf(product_data', ProductsOf(req'.data))]_vars

\* A request without products answered 400 while a table and a model are
\* stored.
C10_Witness ==
  /\ req # NONE /\ req.api = "initialize"
  /\ ProductsOf(req.data) = << >>
  /\ resp.status = 400
  /\ product_data # NONE
  /\ "compatibility" \in DOMAIN models

\* C11: every request that is not answered 200 is answered with a 4xx or
\* 5xx status and a body of the form {error: message}.
C11_ErrorsAreJson ==
  (resp # NONE /\ resp.status # 200)
    => /\ resp.status \in {400, 500}
       /\ DOMAIN resp.body = {"error"}

-----------------------------------------------------------------------------
(* Properties of the colour lexicon, checked under SpecFn *)

\* C12: the tone and the family of a colour string do not depend on its
\* casing: the string, its lower() and its upper() get the same answer.
C12_CaseInsensitive ==
  /\ Returned("get_color_tone")
       => /\ ret.value = get_color_tone(lower(args.color_str))
          /\ ret.value = get_color_tone(upper(args.color_str))
  /\ Returned("get_color_family")
       => /\ ret.value = get_color_family(lower(args.color_str))
          /\ ret.value = get_color_family(upper(args.color_str))

\* Entry i of the tone table is the exact lower-cased key of s.
ExactAt(s, i) == COLOR_TONES[i][1] = lower(s)

\* Entry i is the first entry of the tone table, in declaration order, whose
\* token is a substring of the lower-cased s.
FirstTokenAt(s, i) ==
  /\ Contains(lower(s), COLOR_TONES[i][1])
  /\ \A k \in 1..(i - 1) : ~Contains(lower(s), COLOR_TONES[k][1])

\* Family i is the first family, in declaration order, with a token that is
\* a substring of the lower-cased s.
FirstFamilyAt(s, i) ==
  /\ \E j \in 1..Len(COLOR_FAMILIES[i].colors) :
        Contains(lower(s), COLOR_FAMILIES[i].colors[j])
  /\ \A k \in 1..(i - 1) : \A j \in 1..Len(COLOR_FAMILIES[k].colors) :
        ~Contains(lower(s), COLOR_FAMILIES[k].colors[j])

OrangeRed == <<"o","r","a","n","g","e"," ","r","e","d">>

\* C13: the tone is the tone of the exact lower-cased key when there is one,
\* else the tone of the first tone-table token occurring in the input, else
\* "neutral"; the family is the first family with a token occurring in the
\* input, else "other".  Both answer on every string, and "olive green" and
\* "orange red" resolve to the earliest-declared entry that matches.
C13_DeclarationOrder ==
  /\ Returned("get_color_tone") =>
       LET s == args.color_str
           n == Len(COLOR_TONES)
       IN /\ ret.value \in Tones
          /\ \A i \in 1..n : ExactAt(s, i) => ret.value = COLOR_TONES[i][2]
          /\ (~\E i \in 1..n : ExactAt(s, i)) =>
                \A i \in 1..n : FirstTokenAt(s, i) => ret.value = COLOR_TONES[i][2]
          /\ (~\E i \in 1..n : Contains(lower(s), COLOR_TONES[i][1])) =>
                ret.value = "neutral"
          /\ s = OrangeRed => ret.value = "warm"
  /\ Returned("get_color_family") =>
       LET s == args.color_str
           n == Len(COLOR_FAMILIES)
       IN /\ ret.value \in FamilyNames \cup {"other"}
          /\ \A i \in 1..n : FirstFamilyAt(s, i) => ret.value = COLOR_FAMILIES[i].family
          /\ (~\E i \in 1..n : FirstFamilyAt(s, i)) => ret.value = "other"
          /\ s = OrangeRed => ret.value = "red"
          /\ lower(s) = lower(OliveGreen) => ret.value = "green"

\* "orange red" holds a token of the family orange and one of the family red;
\* the answer is red, the family declared first.
C13_Witness ==
  /\ Returned("get_color_family")
  /\ args.color_str = OrangeRed
  /\ \E i, k \in 1..Len(COLOR_FAMILIES) :
        /\ i < k
        /\ FamilyHit(lower(args.color_str), i)
        /\ FamilyHit(lower(args.color_str), k)
        /\ ret.value = COLOR_FAMILIES[i].family

-----------------------------------------------------------------------------
(* Repeating a request *)

\* A /api/recommend request without products, answered 200: it ranked the
\* stored table.
RankedStored ==
  /\ RecommendAnswered
  /\ Get(req.data, "products", << >>) = << >>

\* C14: a /api/recommend request without products, sent again with the same
\* userInfo to the state the first one left (the stored model unchanged, the
\* stored table now with a compatibility_score column), returns the same
\* recommendations: the same products in the same order with the same
\* scores.  It leaves the table and the model as they are.
C14_RerunIdentical ==
  RankedStored =>
    \A again \in {recommend_products(
                     [userInfo |-> Get(req.data, "userInfo", << >>)],
                     models.compatibility.classifier.proba)} :
       /\ again.resp.status = 200
       /\ again.resp.body.recommendations = Recs
       /\ again.product_data = product_data
       /\ again.models = models

\* The stored table was ranked: it has more than one row, every row carries
\* the compatibility_score column of an earlier ranking, two rows are tied,
\* and the answer lists them in the order of the build's sort.
C14_Witness ==
  /\ RankedStored
  /\ Len(Rows) > 1
  /\ \A k \in 1..Len(Rows) : Key("compatibility_score") \in DOMAIN Rows[k]
  /\ \E i, j \in 1..Len(Rows) :
        /\ i < j
        /\ Rows[i][Key("compatibility_score")] = Rows[j][Key("compatibility_score")]
  /\ Len(Recs) = Min(TOP_N, Len(Rows))

-----------------------------------------------------------------------------
(* Concurrent requests, checked under SpecConc *)

\* C15: /api/initialize and /api/recommend run concurrently without a lock.
\* Each write of a global replaces it with the writer's value whatever an
\* overlapping request wrote before (the last write wins), and the table and
\* the model are written in separate steps: the step that stores the table
\* of a re-initialization leaves the model of the previous one in place, so
\* a recommend request can rank the new table with the old model.
C15_LastWriteWins ==
  [][\A t \in Threads :
       /\ (threads[t].pc = "idle" /\ threads'[t].pc = "train")
            => /\ product_data' = Prepared(ProductsOf(threads'[t].data)).value
               /\ models' = models
       /\ (threads[t].pc = "train" /\ threads'[t].pc = "idle"
             /\ threads'[t].resp.status = 200)
            => /\ models' = [compatibility |-> threads'[t].model]
               /\ ModelIsOf(models', ProductsOf(threads[t].data))
               /\ product_data' = product_data
       /\ (threads[t].pc = "install" /\ threads'[t].pc = "rank")
            => /\ models' = [compatibility |-> threads[t].model]
               /\ product_data' = product_data]_vars

\* A recommend request without products was answered 200 after ranking the
\* table written by an initialize request that is still before its
\* training, with the model an earlier initialize request fitted on other
\* products.
C15_HalfUpdatedRead ==
  \E t, u \in Threads :
    /\ threads[t].api = "recommend"
    /\ threads[t].pc = "idle"
    /\ threads[t].resp.status = 200
    /\ ProductsOf(threads[t].data) = << >>
    /\ threads[u].api = "initialize"
    /\ threads[u].pc = "train"
    /\ threads[t].read.product_df = Prepared(ProductsOf(threads[u].data)).value
    /\ threads[t].read.model.classifier.X.products # ProductsOf(threads[u].data)
    /\ \E data \in ConcInitializeRequests :
          threads[t].read.model.classifier.X.products = ProductsOf(data)
    /\ {threads[t].resp.body.recommendations[k].productId :
           k \in 1..Len(threads[t].resp.body.recommendations)}
         = {ProductsOf(threads[u].data)[k].id :
              k \in 1..Len(ProductsOf(threads[u].data))}

-----------------------------------------------------------------------------
(* The training labels, checked under SpecFn *)

\* Whether the lower-cased colour contains, or is contained in, at least one
\* of the lower-cased phrases.
PhraseHit(color, phrases) ==
  \E j \in 1..Len(phrases) :
     \/ Contains(lower(color), lower(phrases[j]))
     \/ Contains(lower(phrases[j]), lower(color))

\* 50, +10 per colour with a recommended hit, -10 per colour with a
\* not-recommended hit, +5 for Tops and Dresses.
RefLabeledRaw(product, skin_tone) ==
  50 + 10 * Cardinality({i \in 1..Len(product.colors) :
                           PhraseHit(product.colors[i], skin_tone.recommendedColors)})
     - 10 * Cardinality({i \in 1..Len(product.colors) :
                           PhraseHit(product.colors[i], skin_tone.notRecommendedColors)})
     + (IF product.category \in {"Tops", "Dresses"} THEN 5 ELSE 0)

RefLabeled(raw) == IF raw < 0 THEN 0 ELSE IF raw > 100 THEN 100 ELSE raw

\* The class bands: high from 70, medium from 40 to 69, low below.
ClassBands(score, class) ==
  /\ class = "high" <=> score >= 70
  /\ class = "medium" <=> (score >= 40 /\ score <= 69)
  /\ class = "low" <=> score < 40

\* C16: the labeled score of a (product, profile) pair is 50, +10 for each
\* colour that matches a recommended phrase and -10 for each colour that
\* matches a not-recommended phrase (a colour can get both), +5 for Tops and
\* Dresses, clamped to 0..100; the class follows the bands 70 and 40; the
\* training table has one row per product and profile.
C16_LabeledScore ==
  /\ Returned("labeled_score") =>
       /\ ret.value = RefLabeled(RefLabeledRaw(args.product, args.skin_tone))
       /\ ClassBands(ret.value, compatibility_class(ret.value))
  /\ Returned("training_data") =>
       /\ Len(ret.value) = Len(args.products) * Len(args.skin_tones)
       /\ \A p \in 1..Len(args.products) : \A t \in 1..Len(args.skin_tones) :
            \E row \in {ret.value[(p - 1) * Len(args.skin_tones) + t]} :
              /\ row[Key("compatibility_score")] =
                   RefLabeled(RefLabeledRaw(args.products[p], args.skin_tones[t]))
              /\ ClassBands(row[Key("compatibility_score")],
                            row[Key("compatibility_class")])
              /\ row[Key("undertone")] = args.skin_tones[t].undertone

\* A Tops product with a colour that matches both a recommended and a
\* not-recommended phrase of the profile, and a second colour that matches
\* a recommended phrase only: 50 + (10 - 10) + 10 + 5.
C16_Witness ==
  /\ Returned("labeled_score")
  /\ args.product.category = "Tops"
  /\ Len(args.product.colors) = 2
  /\ \E i \in 1..Len(args.product.colors) :
        /\ PhraseHit(args.product.colors[i], args.skin_tone.recommendedColors)
        /\ PhraseHit(args.product.colors[i], args.skin_tone.notRecommendedColors)
  /\ \E i \in 1..Len(args.product.colors) :
        /\ PhraseHit(args.product.colors[i], args.skin_tone.recommendedColors)
        /\ ~PhraseHit(args.product.colors[i], args.skin_tone.notRecommendedColors)
  /\ ret.value = 65

-----------------------------------------------------------------------------
(* The life of the stored model, checked under Spec *)

ModelStored == "compatibility" \in DOMAIN models

\* C17: once a model is stored, no /api/initialize, /api/recommend or
\* /api/compatibility request removes it, whatever it returns; a stored
\* model changes only by a /api/initialize request answered 200; and
\* /api/compatibility leaves the stored model and the product table as
\* they are.
C17_TrainedAbsorbing ==
  [][/\ ModelStored =>
          /\ "compatibility" \in DOMAIN models'
          /\ models' # models => (req'.api = "initialize" /\ resp'.status = 200)
     /\ req'.api = "compatibility" => UNCHANGED <<product_data, models>>
     /\ (req'.api = "initialize" /\ resp'.status # 200) => models' = models]_vars

\* A model is stored and a /api/initialize request for other products has
\* just failed with 500: the model of the earlier products is still there.
C17_Witness ==
  /\ ModelStored
  /\ req # NONE
  /\ req.api = "initialize"
  /\ resp.status = 500
  /\ ProductsOf(req.data) # << >>
  /\ ~ModelIsOf(models, ProductsOf(req.data))
=============================================================================
